---------------------------- MODULE Spec2Model ----------------------------
(***************************************************************************)
(* The two-level alert engine of the driver-drowsiness detector            *)
(* (modular/alerter.py, class AlertEngine) driven frame by frame the way    *)
(* modular/main.py drives it: one process() call per frame at the frame's   *)
(* timestamp, optionally followed by a reset before the next frame.         *)
(*                                                                         *)
(* Units: timestamps and durations are whole seconds; PERCLOS is a whole    *)
(* percentage; blink rate is whole blinks per minute; EAR is in hundredths  *)
(* (0.16 is 16).  Python's None is the integer -1 (no timestamp, metric or  *)
(* count of the program is negative) and the string "None" for a reason.    *)
(***************************************************************************)
EXTENDS Integers, Sequences, FiniteSets, TLC

None == -1
NoReason == "None"

(***************************************************************************)
(* config.py                                                               *)
(***************************************************************************)
EAR_CLOSED_THRESHOLD == 16
LEVEL1_DURATION_SECONDS == 3
YAWN_ALERT_WINDOW_SECONDS == 30
YAWN_ALERT_THRESHOLD == 2
LEVEL2_DURATION_SECONDS == 10
BLINK_RATE_LEVEL1_THRESHOLD == 30
MICROSLEEP_LEVEL1_TRIGGER == TRUE
PERCLOS_LEVEL1_MIN == 15
PERCLOS_LEVEL1_MAX == 40
LEVEL1_FREQUENCY_WINDOW_SECONDS == 300
LEVEL1_FREQUENCY_THRESHOLD == 3
\* the literal 5.0 of process(): "at least 5 seconds" since Level 1 before a reset
RESET_BUFFER_SECONDS == 5
\* _level1_alert_loop: time.sleep(2); _level2_alert_loop sleeps 0.5 s, less
\* than the time between any two frames here
LEVEL1_BEEP_PERIOD == 2
\* __init__: pygame is there and its mixer started
audio_enabled == TRUE

\* Development/PERCLOS.py: EAR below which the eye counts as closed (hundredths)
\* and the length of its sliding window (seconds)
EAR_THRESHOLD == 20
\* Development/yawning_test.py: LAR_THRESHOLD = 0.6 (hundredths) and
\* YAWN_TIME_THRESHOLD = 1.5 s (tenths of a second)
LAR_THRESHOLD == 60
YAWN_TIME_THRESHOLD == 15
PERCLOS_WINDOW == 30

DROWSY_STATES == {"SLIGHTLY_DROWSY", "DROWSY", "VERY_DROWSY", "INATTENTIVE"}

\* the reasons process() passes to trigger_level1 / trigger_level2
REASON_MICROSLEEP == "microsleep event"
REASON_FREQUENT == "frequent Level 1 alerts"
REASON_PERSISTENT == "persistent symptoms"

(***************************************************************************)
(* Bounds of the model and the inputs a frame may carry.                    *)
(***************************************************************************)
\* the last timestamp of a session that takes frames 1, 3 or 10 s apart
MaxTime == 13
\* the last timestamp of a session that takes frames 3 or 10 s apart
MaxYawnTime == 23
\* the longest yawn_timestamps and level1_trigger_history the model lets grow
MaxYawns == 3
MaxHistory == 4
\* the last timestamp of a session with yawns and eyes measured closed
MaxGateTime == 23
\* the last timestamp of a session in which the tone threads are followed
MaxToneTime == 11
\* the last time (tenths of a second) of a session of
\* Development/yawning_test.py
MaxLarTime == 40
\* the last timestamp of a session with frames in quick succession
MaxBurstTime == 20
\* the last timestamp of a session with PERCLOS around the Level 1 band
MaxBandTime == 33
\* the last timestamp of a session that outlasts the recurrence window
MaxLongTime == 450
\* the last timestamp of a session that outlasts every sliding window, and the
\* longest eye_history the model lets grow
MaxWindowTime == 360
MaxIntervals == 2
\* seconds between two consecutive frames
Steps == {1, 3, 10}
YawnSteps == {3, 10}
ToneSteps == {1, 10}
LongSteps == {100, 150}
WindowSteps == {40, 310}
\* tenths of a second between two frames of Development/yawning_test.py, and
\* the mouth-openness ratios a frame may measure (hundredths; 0: the mouth
\* corners coincide)
LarSteps == {5, 10, 16}
LarValues == {0, 60, 70}
\* frames within the same second (the camera's frame rate), or 10 s apart
BurstSteps == {0, 10}
\* the EAR values a frame of Development/PERCLOS.py may measure (hundredths)
ScriptEars == {10, 30}

\* yawn_timestamps lists a frame may pass: nothing, the yawn that just ended,
\* or a yawn that ended three seconds ago, reported twice
YawnInputs(t) ==
    {<<>>, <<t>>} \cup (IF t >= 3 THEN {<<t - 3, t - 3>>} ELSE {})

\* a frame with no face: main() passes the state NO_FACE, no yawn, no metric
\* and microsleep_count 0
NoFaceFrame ==
    [face |-> FALSE, state |-> "NO_FACE", yawns |-> <<>>, perclos |-> None,
     blink_rate |-> None, microsleep_count |-> 0, ear |-> None]

\* the frames with a face and an EAR of a session without yawns: a classified
\* state, a blink rate and a microsleep count
FaceFrames ==
    [face : {TRUE}, state : {"ALERT", "DROWSY"}, yawns : {<<>>}, perclos : {0},
     blink_rate : {0, 30}, microsleep_count : {0, 1}, ear : {30}]

\* the frames of a session in which the tone threads are followed
ToneFrames ==
    [face : {TRUE}, state : {"ALERT", "DROWSY"}, yawns : {<<>>}, perclos : {0},
     blink_rate : {0}, microsleep_count : {0, 1}, ear : {30}]

\* the frames of a session with yawns, at timestamp t
YawnFrames(t) ==
    [face : {TRUE}, state : {"ALERT", "DROWSY"}, yawns : YawnInputs(t),
     perclos : {0, 15}, blink_rate : {0}, microsleep_count : {0}, ear : {30}]

\* the frames, at timestamp t, of a session with yawns in which the eyes may be
\* measured closed: at most one new yawn, and perclos and ear both low, perclos
\* at PERCLOS_LEVEL1_MIN, or ear under EAR_CLOSED_THRESHOLD
GateFrames(t) ==
    [face : {TRUE}, state : {"ALERT", "DROWSY"}, yawns : {<<>>, <<t>>},
     perclos : {0, 15}, blink_rate : {0}, microsleep_count : {0}, ear : {30}]
    \cup [face : {TRUE}, state : {"ALERT", "DROWSY"}, yawns : {<<>>, <<t>>},
          perclos : {0}, blink_rate : {0}, microsleep_count : {0}, ear : {10}]

\* the frames of a session in which only PERCLOS varies: just under, at and
\* just over the two ends of the Level 1 band, with state ALERT, no yawn,
\* no blink rate and no microsleep
BandPerclos ==
    {PERCLOS_LEVEL1_MIN - 1, PERCLOS_LEVEL1_MIN, PERCLOS_LEVEL1_MAX,
     PERCLOS_LEVEL1_MAX + 1}
BandFrames ==
    [face : {TRUE}, state : {"ALERT"}, yawns : {<<>>}, perclos : BandPerclos,
     blink_rate : {0}, microsleep_count : {0}, ear : {30}]

(***************************************************************************)
(* AlertEngine's fields (__init__), the clock and the observers.           *)
(***************************************************************************)
VARIABLES
    level1_start,
    level1_triggered_at,
    level2_triggered,
    level1_active,
    level2_active,
    yawn_timestamps,
    yawns_since_level1,
    level1_trigger_history,
    last_alert_reason,
    stop_alert,
    alert_thread,
    \* the tone threads that are still alive but that alert_thread no longer
    \* references
    orphans,
    now,
    \* main()'s locals that live across frames, and whether main() has ended
    \* with an exception; micro_count = None: neither micro_count nor
    \* recent_yawn_timestamps has been assigned yet
    prev_alert_level,
    micro_count,
    recent_yawn_timestamps,
    crashed,
    \* observers of the run, read by the properties only
    call,
    trig_since,
    drowsy_since,
    quiet_since,
    scenario_yawns,
    late_beeps,
    \* Development/PERCLOS.py: the closures on record as <<start, end>>, the eye
    \* state, the closed time of the last frame with a face and that frame's
    \* current_time (None: no such frame yet)
    eye_history,
    eye_closed,
    eye_closed_start,
    closed_time,
    current_time,
    \* observer: how many closures the last such frame dropped from eye_history
    popped,
    \* Development/yawning_test.py: the start of the yawn candidate, the flag,
    \* and the script's time.time() in tenths of a second
    mouth_open_start_time,
    yawning_detected,
    lar_time,
    \* observers: the lar of the last frame (hundredths; None: no face), and
    \* the time of the first of the unbroken run of samples above
    \* LAR_THRESHOLD that the last sample belongs to (None: no such run)
    lar,
    open_since

engine == <<level1_start, level1_triggered_at, level2_triggered, level1_active,
            level2_active, yawn_timestamps, yawns_since_level1,
            level1_trigger_history, last_alert_reason>>
tones == <<stop_alert, alert_thread, orphans>>
observers == <<call, trig_since, drowsy_since, quiet_since, scenario_yawns,
               late_beeps>>
locals == <<prev_alert_level, micro_count, recent_yawn_timestamps, crashed>>
perclos_script == <<eye_history, eye_closed, eye_closed_start, closed_time,
                    current_time, popped>>
yawning_script == <<mouth_open_start_time, yawning_detected, lar_time, lar,
                    open_since>>
vars == <<engine, tones, now, locals, observers, perclos_script,
          yawning_script>>

\* the engine object as one value, for the methods below
Self ==
    [level1_start |-> level1_start,
     level1_triggered_at |-> level1_triggered_at,
     level2_triggered |-> level2_triggered,
     level1_active |-> level1_active,
     level2_active |-> level2_active,
     yawn_timestamps |-> yawn_timestamps,
     yawns_since_level1 |-> yawns_since_level1,
     level1_trigger_history |-> level1_trigger_history,
     last_alert_reason |-> last_alert_reason,
     stop_alert |-> stop_alert,
     alert_thread |-> alert_thread,
     orphans |-> orphans]

Store(e) ==
    /\ level1_start' = e.level1_start
    /\ level1_triggered_at' = e.level1_triggered_at
    /\ level2_triggered' = e.level2_triggered
    /\ level1_active' = e.level1_active
    /\ level2_active' = e.level2_active
    /\ yawn_timestamps' = e.yawn_timestamps
    /\ yawns_since_level1' = e.yawns_since_level1
    /\ level1_trigger_history' = e.level1_trigger_history
    /\ last_alert_reason' = e.last_alert_reason
    /\ stop_alert' = e.stop_alert
    /\ alert_thread' = e.alert_thread
    /\ orphans' = e.orphans

(***************************************************************************)
(* Helpers for Python lists.                                               *)
(***************************************************************************)
Contains(s, x) == \E i \in 1..Len(s) : s[i] = x

\* [ts for ts in s if ts >= cutoff]
KeepFrom(s, cutoff) == SelectSeq(s, LAMBDA ts : ts >= cutoff)

\* sum(1 for ts in s if ts >= start)
CountFrom(s, start) == Len(SelectSeq(s, LAMBDA ts : ts >= start))

RECURSIVE Join(_)
\* " + ".join(triggers)
Join(triggers) ==
    IF Len(triggers) = 0 THEN ""
    ELSE IF Len(triggers) = 1 THEN triggers[1]
    ELSE triggers[1] \o " + " \o Join(Tail(triggers))

(***************************************************************************)
(* AlertEngine methods.  Each takes the engine value e and returns the      *)
(* engine value after the call (with the returned value, when there is one).*)
(***************************************************************************)
get_alert_level(e) ==
    IF e.level2_active THEN 2
    ELSE IF e.level1_active THEN 1
    ELSE 0

\* a tone thread: which loop it runs ("l1": _level1_alert_loop, "l2":
\* _level2_alert_loop) and where it is in it: about to test the loop condition
\* ("check"), past the test and about to beep ("emit"), or in time.sleep
NewThread(kind) == [kind |-> kind, pc |-> "check"]

\* alert_thread is None, or the thread it references has ended
NoThread == [kind |-> "none", pc |-> "done"]

\* "self.alert_thread and self.alert_thread.is_alive()"
IsAlive(thread) == thread.kind # "none"

start_level1_alerts(e) ==
    IF IsAlive(e.alert_thread) THEN e
    ELSE [e EXCEPT !.stop_alert = FALSE,
                   !.alert_thread = NewThread("l1")]

\* the thread that was alive is told to stop and, after the 0.5 s sleep, is no
\* longer referenced; stop_alert stays as set
start_level2_alerts(e) ==
    [e EXCEPT !.stop_alert = IsAlive(e.alert_thread),
              !.orphans = IF IsAlive(e.alert_thread)
                          THEN @ \cup {e.alert_thread} ELSE @,
              !.alert_thread = NewThread("l2")]

\* a variant of reset() guarded by level1_triggered_at instead of level1_start
reset_if_triggered(e) ==
    IF e.level1_triggered_at # None
    THEN [e EXCEPT !.level1_start = None,
                   !.level1_triggered_at = None,
                   !.level1_active = FALSE,
                   !.level2_active = FALSE,
                   !.stop_alert = TRUE,
                   !.yawn_timestamps = <<>>,
                   !.yawns_since_level1 = 0]
    ELSE e

\* a variant of reset() that keeps the count of yawns since Level 1
reset_keeps_yawn_count(e) ==
    IF e.level1_start # None
    THEN [e EXCEPT !.level1_start = None,
                   !.level1_triggered_at = None,
                   !.level1_active = FALSE,
                   !.level2_active = FALSE,
                   !.stop_alert = TRUE,
                   !.yawn_timestamps = <<>>]
    ELSE e

\* a variant of reset() that ends Level 2 but leaves Level 1 active
reset_keeps_level1(e) ==
    IF e.level1_start # None
    THEN [e EXCEPT !.level1_start = None,
                   !.level1_triggered_at = None,
                   !.level2_active = FALSE,
                   !.stop_alert = TRUE,
                   !.yawn_timestamps = <<>>,
                   !.yawns_since_level1 = 0]
    ELSE e

\* a variant of reset() that forgets the Level-1 activations on record
reset_clears_history(e) ==
    IF e.level1_start # None
    THEN [e EXCEPT !.level1_start = None,
                   !.level1_triggered_at = None,
                   !.level1_active = FALSE,
                   !.level2_active = FALSE,
                   !.stop_alert = TRUE,
                   !.level1_trigger_history = <<>>,
                   !.yawn_timestamps = <<>>,
                   !.yawns_since_level1 = 0]
    ELSE e

\* a variant of reset() that steps down one level per call
reset_one_level(e) ==
    IF e.level1_start # None
    THEN IF e.level2_active
         THEN [e EXCEPT !.level2_active = FALSE, !.stop_alert = TRUE]
         ELSE [e EXCEPT !.level1_start = None,
                        !.level1_triggered_at = None,
                        !.level1_active = FALSE,
                        !.stop_alert = TRUE,
                        !.yawn_timestamps = <<>>,
                        !.yawns_since_level1 = 0]
    ELSE e

reset(e) ==
    IF e.level1_start # None
    THEN [e EXCEPT !.level1_start = None,
                   !.level1_triggered_at = None,
                   !.level1_active = FALSE,
                   !.level2_active = FALSE,
                   !.stop_alert = TRUE,
                   !.yawn_timestamps = <<>>,
                   !.yawns_since_level1 = 0]
    ELSE e

manual_reset(e) == [reset(e) EXCEPT !.level2_triggered = FALSE]

\* a variant of trigger_level1 without the "if self.level1_active: return"
trigger_level1_again(e, timestamp, reason) ==
    start_level1_alerts(
        [e EXCEPT !.level1_active = TRUE,
                  !.level1_triggered_at = timestamp,
                  !.yawns_since_level1 = 0,
                  !.level1_trigger_history = Append(@, timestamp),
                  !.last_alert_reason = reason])

trigger_level1(e, timestamp, reason) ==
    IF e.level1_active THEN e
    ELSE start_level1_alerts(
           [e EXCEPT !.level1_active = TRUE,
                     !.level1_triggered_at = timestamp,
                     !.yawns_since_level1 = 0,
                     !.level1_trigger_history = Append(@, timestamp),
                     !.last_alert_reason = reason,
                     \* get_yawn_frequency(timestamp), called for this reason only
                     !.yawn_timestamps =
                         IF reason = "yawn frequency"
                         THEN KeepFrom(@, timestamp - YAWN_ALERT_WINDOW_SECONDS)
                         ELSE @])

trigger_level2(e, timestamp, reason) ==
    IF e.level2_active THEN e
    ELSE start_level2_alerts(
           [e EXCEPT !.level2_active = TRUE,
                     !.level2_triggered = TRUE,
                     !.last_alert_reason = reason])

RECURSIVE IngestYawnsAll(_, _, _)
\* a variant of the ingestion loop without the "ts not in" test
IngestYawnsAll(e, yawns, i) ==
    IF i > Len(yawns) THEN e
    ELSE LET ts == yawns[i]
             e1 == [e EXCEPT
                      !.yawn_timestamps = Append(@, ts),
                      !.yawns_since_level1 =
                          IF e.level1_triggered_at # None
                             /\ ts >= e.level1_triggered_at
                          THEN @ + 1 ELSE @]
         IN  IngestYawnsAll(e1, yawns, i + 1)

RECURSIVE IngestYawns(_, _, _)
\* process(): "for ts in yawn_timestamps", from the i-th element on
IngestYawns(e, yawns, i) ==
    IF i > Len(yawns) THEN e
    ELSE LET ts == yawns[i]
             e1 == IF ~Contains(e.yawn_timestamps, ts)
                   THEN [e EXCEPT
                           !.yawn_timestamps = Append(@, ts),
                           !.yawns_since_level1 =
                               IF e.level1_triggered_at # None
                                  /\ ts >= e.level1_triggered_at
                               THEN @ + 1 ELSE @]
                   ELSE e
         IN  IngestYawns(e1, yawns, i + 1)

\* _check_yawn_trigger: the pruning it does to the engine ...
PruneYawns(e, timestamp) ==
    [e EXCEPT !.yawn_timestamps =
                  KeepFrom(@, timestamp - YAWN_ALERT_WINDOW_SECONDS)]

\* a variant of _check_yawn_trigger that fires at the threshold itself
check_yawn_trigger_at_threshold(e, timestamp) ==
    CountFrom(KeepFrom(e.yawn_timestamps, timestamp - YAWN_ALERT_WINDOW_SECONDS),
              timestamp - YAWN_ALERT_WINDOW_SECONDS) >= YAWN_ALERT_THRESHOLD

\* ... and the value it returns
check_yawn_trigger(e, timestamp) ==
    CountFrom(PruneYawns(e, timestamp).yawn_timestamps,
              timestamp - YAWN_ALERT_WINDOW_SECONDS) > YAWN_ALERT_THRESHOLD

check_blink_rate_trigger(blink_rate) ==
    IF blink_rate = None THEN FALSE
    ELSE blink_rate >= BLINK_RATE_LEVEL1_THRESHOLD

\* a variant of _check_microsleep_trigger that needs two microsleeps
check_microsleep_trigger_two(microsleep_count) ==
    IF microsleep_count = None THEN FALSE
    ELSE MICROSLEEP_LEVEL1_TRIGGER /\ microsleep_count > 1

check_microsleep_trigger(microsleep_count) ==
    IF microsleep_count = None THEN FALSE
    ELSE MICROSLEEP_LEVEL1_TRIGGER /\ microsleep_count > 0

\* a variant of the PERCLOS trigger without the upper end of the band
check_perclos_trigger_open(perclos) ==
    IF perclos = None THEN FALSE ELSE PERCLOS_LEVEL1_MIN <= perclos

check_perclos_trigger(perclos) ==
    IF perclos = None THEN FALSE
    ELSE PERCLOS_LEVEL1_MIN <= perclos /\ perclos <= PERCLOS_LEVEL1_MAX

\* _check_frequent_level1_trigger: the pruning it does to the engine ...
PruneHistory(e, timestamp) ==
    [e EXCEPT !.level1_trigger_history =
                  KeepFrom(@, timestamp - LEVEL1_FREQUENCY_WINDOW_SECONDS)]

\* a variant of _check_frequent_level1_trigger that fires one activation early
check_frequent_level1_trigger_early(e, timestamp) ==
    CountFrom(KeepFrom(e.level1_trigger_history,
                       timestamp - LEVEL1_FREQUENCY_WINDOW_SECONDS),
              timestamp - LEVEL1_FREQUENCY_WINDOW_SECONDS)
        >= LEVEL1_FREQUENCY_THRESHOLD - 1

\* a variant of _check_frequent_level1_trigger that always reports recurrence
check_frequent_level1_trigger_always(e, timestamp) == TRUE

\* ... and the value it returns
check_frequent_level1_trigger(e, timestamp) ==
    CountFrom(PruneHistory(e, timestamp).level1_trigger_history,
              timestamp - LEVEL1_FREQUENCY_WINDOW_SECONDS)
        >= LEVEL1_FREQUENCY_THRESHOLD

\* a variant of the reason that names the first active trigger only
DwellReasonFirst(yawn_trigger, blink_rate_trigger, perclos_trigger, has_symptoms) ==
    IF yawn_trigger THEN "yawn frequency"
    ELSE IF blink_rate_trigger THEN "excessive blink rate"
    ELSE IF perclos_trigger THEN "high PERCLOS"
    ELSE "drowsiness symptoms"

\* process(): the reason of a Level 1 that fires after the dwell
DwellReason(yawn_trigger, blink_rate_trigger, perclos_trigger, has_symptoms) ==
    LET triggers ==
            (IF yawn_trigger THEN <<"yawn frequency">> ELSE <<>>)
            \o (IF blink_rate_trigger THEN <<"excessive blink rate">> ELSE <<>>)
            \o (IF perclos_trigger THEN <<"high PERCLOS">> ELSE <<>>)
            \o (IF has_symptoms THEN <<"drowsiness symptoms">> ELSE <<>>)
    IN  IF Len(triggers) > 0 THEN Join(triggers) ELSE "drowsiness symptoms"

\* a variant of the dwell test that is satisfied one second early
DwellCompleteEarly(elapsed) == elapsed >= LEVEL1_DURATION_SECONDS - 1

\* process(): "elapsed >= LEVEL1_DURATION_SECONDS"
DwellComplete(elapsed) == elapsed >= LEVEL1_DURATION_SECONDS

\* a variant of the escalation test that is satisfied one second early
EscalationDueEarly(level1_elapsed) == level1_elapsed >= LEVEL2_DURATION_SECONDS - 1

\* a variant of the escalation test that needs more than the duration
EscalationDueLate(level1_elapsed) == level1_elapsed > LEVEL2_DURATION_SECONDS

\* process(): "level1_elapsed >= LEVEL2_DURATION_SECONDS"
EscalationDue(level1_elapsed) == level1_elapsed >= LEVEL2_DURATION_SECONDS

\* a variant of should_escalate whose yawn branch has no further condition
ShouldEscalateUngated(e, has_symptoms, yawn_trigger, blink_rate_trigger, perclos_trigger, perclos, ear) ==
    IF has_symptoms THEN TRUE
    ELSE IF yawn_trigger THEN TRUE
    ELSE IF blink_rate_trigger THEN TRUE
    ELSE perclos_trigger

\* process(): the standard escalation's "should_escalate"
ShouldEscalate(e, has_symptoms, yawn_trigger, blink_rate_trigger, perclos_trigger, perclos, ear) ==
    IF has_symptoms THEN TRUE
    ELSE IF yawn_trigger
    THEN /\ e.yawns_since_level1 > 0
         /\ \/ (perclos # None /\ perclos >= PERCLOS_LEVEL1_MIN)
            \/ (ear # None /\ ear < EAR_CLOSED_THRESHOLD)
    ELSE IF blink_rate_trigger THEN TRUE
    ELSE perclos_trigger

\* process(), the branch "if should_trigger_level1:"
ProcessSymptoms(e, timestamp, has_symptoms, yawn_trigger, blink_rate_trigger, perclos_trigger, perclos, ear) ==
    LET e1 == IF e.level1_start = None
              THEN [e EXCEPT !.level1_start = timestamp] ELSE e
        elapsed == timestamp - e1.level1_start
        e2 == IF DwellComplete(elapsed) /\ ~e1.level1_active
              THEN trigger_level1(e1, timestamp,
                       DwellReason(yawn_trigger, blink_rate_trigger,
                                   perclos_trigger, has_symptoms))
              ELSE e1
        cleared ==
            /\ e2.level1_active /\ e2.level1_triggered_at # None
            /\ ~has_symptoms /\ ~yawn_trigger
            /\ ~blink_rate_trigger /\ ~perclos_trigger
            /\ e2.yawns_since_level1 = 0
            /\ timestamp - e2.level1_triggered_at >= RESET_BUFFER_SECONDS
        frequent == check_frequent_level1_trigger(e2, timestamp)
        e3 == PruneHistory(e2, timestamp)
        e4 == IF frequent /\ ~e3.level2_active
              THEN trigger_level2(e3, timestamp, REASON_FREQUENT) ELSE e3
        e5 == IF /\ e4.level1_active /\ e4.level1_triggered_at # None
                 /\ EscalationDue(timestamp - e4.level1_triggered_at)
                 /\ ~e4.level2_active
                 /\ ShouldEscalate(e4, has_symptoms, yawn_trigger,
                                   blink_rate_trigger, perclos_trigger,
                                   perclos, ear)
              THEN trigger_level2(e4, timestamp, REASON_PERSISTENT) ELSE e4
    IN  IF cleared THEN reset(e2) ELSE e5

\* a variant of the branch "else:" that enters Level 2 when the recurrence
\* history holds LEVEL1_FREQUENCY_THRESHOLD activations
ProcessClearRecurring(e, state, has_symptoms, yawn_trigger, blink_rate_trigger, perclos_trigger) ==
    IF Len(e.level1_trigger_history) >= LEVEL1_FREQUENCY_THRESHOLD
    THEN trigger_level2(e, None, REASON_FREQUENT)
    ELSE IF state = "ALERT" \/ state = "NO_FACE"
    THEN IF ~yawn_trigger /\ ~blink_rate_trigger /\ ~perclos_trigger
         THEN reset(e) ELSE e
    ELSE e

\* process(), the branch "else:" (no symptom trigger on this frame)
ProcessClear(e, state, has_symptoms, yawn_trigger, blink_rate_trigger, perclos_trigger) ==
    IF state = "ALERT" \/ state = "NO_FACE"
    THEN IF ~yawn_trigger /\ ~blink_rate_trigger /\ ~perclos_trigger
         THEN reset(e) ELSE e
    ELSE IF /\ ~yawn_trigger /\ ~blink_rate_trigger /\ ~perclos_trigger
            /\ e.level1_active /\ e.level1_triggered_at # None
            /\ ~has_symptoms
    THEN reset(e) ELSE e

\* process(): "should_trigger_level1"
ShouldTriggerLevel1(has_symptoms, yawn_trigger, blink_rate_trigger, perclos_trigger) ==
    has_symptoms \/ yawn_trigger \/ blink_rate_trigger \/ perclos_trigger

process(e, state, timestamp, yawns, perclos, blink_rate, microsleep_count, ear) ==
    LET e1 == IngestYawns(e, yawns, 1)
        has_symptoms == state \in DROWSY_STATES
        yawn_trigger == check_yawn_trigger(e1, timestamp)
        e2 == PruneYawns(e1, timestamp)
        blink_rate_trigger == check_blink_rate_trigger(blink_rate)
        microsleep_trigger == check_microsleep_trigger(microsleep_count)
        perclos_trigger == check_perclos_trigger(perclos)
    IN  IF microsleep_trigger /\ ~e2.level1_active
        THEN trigger_level1(e2, timestamp, REASON_MICROSLEEP)
        ELSE IF ShouldTriggerLevel1(has_symptoms, yawn_trigger,
                                    blink_rate_trigger, perclos_trigger)
        THEN ProcessSymptoms(e2, timestamp, has_symptoms, yawn_trigger,
                             blink_rate_trigger, perclos_trigger, perclos, ear)
        ELSE ProcessClear(e2, state, has_symptoms, yawn_trigger,
                          blink_rate_trigger, perclos_trigger)

(***************************************************************************)
(* Observers.  They record what the last call was and how long the runs of  *)
(* frames the properties speak of have lasted; no method reads them.        *)
(***************************************************************************)
NoCall(op) == [op |-> op]
Broken == {None}
\* Scenario A: the yawns of a session whose frames all have state ALERT
ScenarioAYawns == {0, 10, 20}

\* should_trigger_level1 as process() computes it for frame f at time t
TriggerActive(e, f, t) ==
    ShouldTriggerLevel1(f.state \in DROWSY_STATES,
                        check_yawn_trigger(IngestYawns(e, f.yawns, 1), t),
                        check_blink_rate_trigger(f.blink_rate),
                        check_perclos_trigger(f.perclos))

\* the start of the unbroken run of calls with some symptom trigger active,
\* up to and with the call at time t; None when that call had none
RunStart(e, f, t) ==
    IF TriggerActive(e, f, t)
    THEN (IF trig_since = None THEN t ELSE trig_since)
    ELSE None

\* the same, followed while Level 1 is not active (the run that counts
\* towards the next activation)
TrigSince(e, f, t, e2) ==
    IF e2.level1_active THEN None ELSE RunStart(e, f, t)

\* the trigger kinds (yawn, blink rate, PERCLOS, state) that give a Level-1
\* activation the reason it has on record
KindsOfReason(reason) ==
    {k \in [yawn : BOOLEAN, blink : BOOLEAN, perclos : BOOLEAN, state : BOOLEAN] :
        /\ k.yawn \/ k.blink \/ k.perclos \/ k.state
        /\ DwellReason(k.yawn, k.blink, k.perclos, k.state) = reason}

\* a trigger kind that caused the current Level-1 activation (its reason is
\* e.last_alert_reason) is active on the call with frame f at time t
OriginalActive(e, f, t) ==
    \/ /\ e.last_alert_reason = REASON_MICROSLEEP
       /\ check_microsleep_trigger(f.microsleep_count)
    \/ \E k \in KindsOfReason(e.last_alert_reason) :
          \/ k.state /\ f.state \in DROWSY_STATES
          \/ k.yawn /\ check_yawn_trigger(IngestYawns(e, f.yawns, 1), t)
          \/ k.blink /\ check_blink_rate_trigger(f.blink_rate)
          \/ k.perclos /\ check_perclos_trigger(f.perclos)

\* the call is not one on which the standard escalation is due
NotDue == [due |-> FALSE]

\* for a call that starts with Level 1 active for LEVEL2_DURATION_SECONDS or
\* more and Level 2 not active: the triggers of the call as process() computes
\* them and the yawn branch's condition; NotDue for every other call
EscalationCase(e, f, t) ==
    IF /\ e.level1_active /\ ~e.level2_active
       /\ e.level1_triggered_at # None
       /\ t - e.level1_triggered_at >= LEVEL2_DURATION_SECONDS
    THEN [due |-> TRUE,
          has_symptoms |-> f.state \in DROWSY_STATES,
          yawn_trigger |-> check_yawn_trigger(IngestYawns(e, f.yawns, 1), t),
          blink_rate_trigger |-> check_blink_rate_trigger(f.blink_rate),
          perclos_trigger |-> check_perclos_trigger(f.perclos),
          yawn_condition |->
              /\ IngestYawns(e, f.yawns, 1).yawns_since_level1 > 0
              /\ \/ (f.perclos # None /\ f.perclos >= PERCLOS_LEVEL1_MIN)
                 \/ (f.ear # None /\ f.ear < EAR_CLOSED_THRESHOLD),
          original |-> OriginalActive(e, f, t)]
    ELSE NotDue

\* the call did not activate Level 1
NotFired == [fired |-> FALSE]

\* for a call that activates Level 1: whether it did so by the microsleep path,
\* and the triggers of the call as process() computes them
ActivationCase(e, f, t, e2) ==
    IF ~e.level1_active /\ e2.level1_active
    THEN [fired |-> TRUE,
          microsleep |-> check_microsleep_trigger(f.microsleep_count),
          yawn_trigger |-> check_yawn_trigger(IngestYawns(e, f.yawns, 1), t),
          blink_rate_trigger |-> check_blink_rate_trigger(f.blink_rate),
          perclos_trigger |-> check_perclos_trigger(f.perclos),
          has_symptoms |-> f.state \in DROWSY_STATES]
    ELSE NotFired

\* main(): what the frame body logs once process() has returned, given the
\* level it remembered and the level it reads now ("LEVEL2" comes with
\* send_emergency)
LogAlert(prev, alert_level) ==
    IF alert_level # prev
    THEN IF alert_level = 1 /\ prev = 0 THEN "LEVEL1"
         ELSE IF alert_level = 2 THEN "LEVEL2"
         ELSE "none"
    ELSE "none"

\* the record of a process() call with frame f at time t that took the engine
\* from e to e2; pre_triggered_at is kept for a call that ends Level 1 only
ProcessCall(e, f, t, e2) ==
    [op |-> "process",
     face |-> f.face,
     log_alert |-> LogAlert(prev_alert_level, get_alert_level(e2)),
     pre_l1 |-> e.level1_active,
     pre_l2 |-> e.level2_active,
     pre_triggered_at |->
         IF e.level1_active /\ ~e2.level1_active
         THEN e.level1_triggered_at ELSE None,
     microsleep_count |-> f.microsleep_count,
     trigger |-> TriggerActive(e, f, t),
     yawned |-> IngestYawns(e, f.yawns, 1).yawns_since_level1 > 0,
     escalation |-> EscalationCase(e, f, t),
     perclos |-> f.perclos,
     activation |-> ActivationCase(e, f, t, e2),
     \* the yawns on record that were older than the yawn window at the call
     stale_yawns |-> Len(e.yawn_timestamps)
                       - CountFrom(e.yawn_timestamps,
                                   t - YAWN_ALERT_WINDOW_SECONDS),
     \* for a call that activates Level 1: the start of its trigger run
     run_start |->
         IF ~e.level1_active /\ e2.level1_active
         THEN RunStart(e, f, t) ELSE None]

\* the start of the unbroken run of drowsy-state calls that began on an idle
\* engine with fewer than LEVEL1_FREQUENCY_THRESHOLD - 1 activations on
\* record and in which no call took the microsleep path
DrowsySince(e, f, t) ==
    IF /\ f.state \in DROWSY_STATES
       /\ ~(check_microsleep_trigger(f.microsleep_count) /\ ~e.level1_active)
    THEN IF drowsy_since # None THEN drowsy_since
         ELSE IF /\ e.level1_start = None
                 /\ get_alert_level(e) = 0
                 /\ Len(e.level1_trigger_history) < LEVEL1_FREQUENCY_THRESHOLD - 1
         THEN t ELSE None
    ELSE None

\* the start of the unbroken run of calls made at Level 1 or 2 with state
\* ALERT, no microsleep, no yawn passed and no symptom trigger active
QuietSince(e, f, t) ==
    IF /\ get_alert_level(e) > 0
       /\ f.state = "ALERT" /\ f.microsleep_count = 0 /\ f.yawns = <<>>
       /\ ~TriggerActive(e, f, t)
    THEN (IF quiet_since = None THEN t ELSE quiet_since)
    ELSE None

\* the yawns passed so far, while every frame had state ALERT, no microsleep
\* and no blink-rate or PERCLOS trigger, and passed only yawns of Scenario A,
\* each first on the frame at its own timestamp
ScenarioYawns(f, t) ==
    IF /\ scenario_yawns # Broken
       /\ f.state = "ALERT" /\ f.microsleep_count = 0
       /\ ~check_blink_rate_trigger(f.blink_rate)
       /\ ~check_perclos_trigger(f.perclos)
       /\ \A i \in 1..Len(f.yawns) :
             /\ f.yawns[i] \in ScenarioAYawns
             /\ f.yawns[i] = t \/ f.yawns[i] \in scenario_yawns
    THEN scenario_yawns \cup {f.yawns[i] : i \in 1..Len(f.yawns)}
    ELSE Broken

(***************************************************************************)
(* The state machine.                                                      *)
(***************************************************************************)
Init ==
    /\ level1_start = None
    /\ level1_triggered_at = None
    /\ level2_triggered = FALSE
    /\ level1_active = FALSE
    /\ level2_active = FALSE
    /\ yawn_timestamps = <<>>
    /\ yawns_since_level1 = 0
    /\ level1_trigger_history = <<>>
    /\ last_alert_reason = NoReason
    /\ stop_alert = FALSE
    /\ alert_thread = NoThread
    /\ orphans = {}
    /\ late_beeps = {}
    /\ now = 0
    /\ prev_alert_level = 0
    /\ micro_count = None
    /\ recent_yawn_timestamps = <<>>
    /\ crashed = FALSE
    /\ call = NoCall("init")
    /\ trig_since = None
    /\ drowsy_since = None
    /\ quiet_since = None
    /\ scenario_yawns = {}
    /\ eye_history = <<>>
    /\ eye_closed = FALSE
    /\ eye_closed_start = None
    /\ closed_time = 0
    /\ current_time = None
    /\ popped = 0
    /\ mouth_open_start_time = None
    /\ yawning_detected = FALSE
    /\ lar_time = 0
    /\ lar = None
    /\ open_since = None

\* the next frame arrives dt seconds after the last: main()'s "now = time.time()"
TickBy(dt, last) ==
    /\ call.op # "tick" /\ ~crashed
    /\ now + dt <= last
    /\ now' = now + dt
    /\ call' = NoCall("tick")
    /\ UNCHANGED <<engine, locals, trig_since, drowsy_since, quiet_since,
                   scenario_yawns, late_beeps>>
    /\ UNCHANGED <<perclos_script, yawning_script>>

\* main()'s frame body from alerter.process(state, now, ...) on, with the
\* values of frame f: the call, then the level main() remembers
ProcessFrame(f) ==
    /\ call.op \in {"init", "tick"}
    /\ LET e == process(Self, f.state, now, f.yawns, f.perclos, f.blink_rate,
                        f.microsleep_count, f.ear)
       IN  /\ Len(e.yawn_timestamps) <= MaxYawns
           /\ Len(e.level1_trigger_history) <= MaxHistory
           /\ Store(e)
           /\ call' = ProcessCall(Self, f, now, e)
           /\ trig_since' = TrigSince(Self, f, now, e)
           /\ prev_alert_level' = get_alert_level(e)
    /\ drowsy_since' = DrowsySince(Self, f, now)
    /\ quiet_since' = QuietSince(Self, f, now)
    /\ scenario_yawns' = ScenarioYawns(f, now)
    /\ UNCHANGED <<now, crashed, late_beeps>>
    /\ UNCHANGED <<perclos_script, yawning_script>>

\* a frame with a face and an EAR: main() assigns micro_count and
\* recent_yawn_timestamps from the analyzers, then passes them on
FaceFrame(f) ==
    /\ f.face /\ f.ear # None
    /\ ProcessFrame(f)
    /\ micro_count' = f.microsleep_count
    /\ recent_yawn_timestamps' = f.yawns

\* a frame with no face: main() passes the neutral values
NoFace ==
    /\ ProcessFrame(NoFaceFrame)
    /\ UNCHANGED <<micro_count, recent_yawn_timestamps>>

\* what main() passes on a frame with a face but no EAR: the defaults of the
\* frame (state NO_FACE, perclos 0.0, blink_rate 0.0, ear None) and whatever
\* micro_count and recent_yawn_timestamps hold from an earlier frame
EarlessFrame ==
    [face |-> TRUE, state |-> "NO_FACE", yawns |-> recent_yawn_timestamps,
     perclos |-> 0, blink_rate |-> 0, microsleep_count |-> micro_count,
     ear |-> None]

\* a frame with a face but no EAR: reading recent_yawn_timestamps before any
\* frame assigned it raises UnboundLocalError, which main() does not catch
FaceWithoutEar ==
    /\ call.op \in {"init", "tick"}
    /\ IF micro_count = None
       THEN /\ crashed' = TRUE
            /\ call' = NoCall("crash")
            /\ UNCHANGED <<engine, tones, now, prev_alert_level, micro_count,
                           recent_yawn_timestamps, trig_since, drowsy_since,
                           quiet_since, scenario_yawns, late_beeps>>
       ELSE /\ ProcessFrame(EarlessFrame)
            /\ UNCHANGED <<micro_count, recent_yawn_timestamps>>
    /\ UNCHANGED <<perclos_script, yawning_script>>

\* main()'s key 'r': alerter.manual_reset(), after the frame was processed
ManualReset ==
    /\ call.op = "process"
    /\ Store(manual_reset(Self))
    /\ call' = NoCall("manual_reset")
    /\ drowsy_since' = None
    /\ quiet_since' = None
    /\ scenario_yawns' = Broken
    /\ trig_since' = None
    /\ UNCHANGED <<now, locals, late_beeps>>
    /\ UNCHANGED <<perclos_script, yawning_script>>

(***************************************************************************)
(* Development/PERCLOS.py: the sliding window of eye closures.              *)
(***************************************************************************)
\* a variant of the window maintenance that drops nothing
PopNothing(history, t) == history

RECURSIVE PopStale(_, _)
\* "while eye_history and eye_history[0][1] < current_time - PERCLOS_WINDOW:
\*      eye_history.popleft()"
PopStale(history, t) ==
    IF history # <<>> /\ Head(history)[2] < t - PERCLOS_WINDOW
    THEN PopStale(Tail(history), t)
    ELSE history

RECURSIVE SumClosed(_)
\* sum(end - start for start, end in eye_history)
SumClosed(history) ==
    IF history = <<>> THEN 0
    ELSE (Head(history)[2] - Head(history)[1]) + SumClosed(Tail(history))

\* one iteration of the script's main loop at time now: with no face nothing is
\* updated; with a face, the eye state, the window and the closed time are
PerclosFrame(face, ear) ==
    /\ IF ~face
       THEN UNCHANGED perclos_script
       ELSE LET closing == ear < EAR_THRESHOLD
                appended == IF ~closing /\ eye_closed
                            THEN Append(eye_history, <<eye_closed_start, now>>)
                            ELSE eye_history
                start == IF closing
                         THEN IF eye_closed THEN eye_closed_start ELSE now
                         ELSE None
                kept == PopStale(appended, now)
            IN  /\ Len(kept) <= MaxIntervals
                /\ eye_history' = kept
                /\ eye_closed' = closing
                /\ eye_closed_start' = start
                /\ closed_time' = SumClosed(kept)
                                     + (IF closing /\ start # None
                                        THEN now - start ELSE 0)
                /\ current_time' = now
                /\ popped' = Len(appended) - Len(kept)
    /\ UNCHANGED <<engine, tones, now, locals, observers, yawning_script>>

(***************************************************************************)
(* The tone threads.                                                       *)
(***************************************************************************)
\* the loop condition of _level1_alert_loop / _level2_alert_loop, as the thread
\* reads it now
LoopCondition(thread) ==
    /\ ~stop_alert
    /\ IF thread.kind = "l1" THEN level1_active ELSE level2_active

\* the thread's level is not active any more, or (Level 1) it was told to stop
Deactivated(thread) ==
    IF thread.kind = "l1" THEN ~level1_active \/ stop_alert
    ELSE ~level2_active

\* the thread referenced by alert_thread (ref) or the orphan thread goes on as
\* next; next = NoThread: it has ended
Becomes(ref, thread, next) ==
    IF ref
    THEN /\ alert_thread' = next
         /\ UNCHANGED orphans
    ELSE /\ orphans' = (orphans \ {thread})
                           \cup (IF IsAlive(next) THEN {next} ELSE {})
         /\ UNCHANGED alert_thread

\* the threads alive, each with whether alert_thread references it
Running ==
    (IF IsAlive(alert_thread) THEN {<<TRUE, alert_thread>>} ELSE {})
    \cup {<<FALSE, o>> : o \in orphans}

\* a variant of the loops in which a thread that leaves its loop clears the
\* stop request it has seen
ToneCheckAcknowledging(ref, thread) ==
    /\ thread.pc = "check"
    /\ Becomes(ref, thread,
               IF LoopCondition(thread) THEN [thread EXCEPT !.pc = "emit"]
               ELSE NoThread)
    /\ stop_alert' = (stop_alert /\ LoopCondition(thread))
    /\ UNCHANGED <<engine, now, locals, observers>>
    /\ UNCHANGED <<perclos_script, yawning_script>>

\* "while not self.stop_alert and self.levelN_active:"
ToneCheck(ref, thread) ==
    /\ thread.pc = "check"
    /\ Becomes(ref, thread,
               IF LoopCondition(thread) THEN [thread EXCEPT !.pc = "emit"]
               ELSE NoThread)
    /\ UNCHANGED <<engine, stop_alert, now, locals, observers>>
    /\ UNCHANGED <<perclos_script, yawning_script>>

\* "if self.audio_enabled: _beep(...)", then into time.sleep
ToneEmit(ref, thread) ==
    /\ thread.pc = "emit"
    /\ late_beeps' = late_beeps \cup
           (IF audio_enabled /\ Deactivated(thread) THEN {thread.kind} ELSE {})
    /\ Becomes(ref, thread, [thread EXCEPT !.pc = "sleep"])
    /\ UNCHANGED <<engine, stop_alert, now, locals, call, trig_since,
                   drowsy_since, quiet_since, scenario_yawns>>
    /\ UNCHANGED <<perclos_script, yawning_script>>

\* a variant of the loops in which an exception of _beep is not caught: it ends
\* the thread
BeepErrorUncaught(thread) == NoThread

\* "except Exception as e: print(...)": the thread goes on to its time.sleep
BeepErrorCaught(thread) == [thread EXCEPT !.pc = "sleep"]

\* _beep(...) raises inside the loop's try (the audio backend fails)
ToneFail(ref, thread) ==
    /\ thread.pc = "emit" /\ audio_enabled
    /\ Becomes(ref, thread, [thread EXCEPT !.pc = "except"])
    /\ UNCHANGED <<engine, stop_alert, now, locals, observers>>
    /\ UNCHANGED <<perclos_script, yawning_script>>

\* the loop's except clause runs
ToneHandle(ref, thread) ==
    /\ thread.pc = "except"
    /\ Becomes(ref, thread, BeepErrorCaught(thread))
    /\ UNCHANGED <<engine, stop_alert, now, locals, observers>>
    /\ UNCHANGED <<perclos_script, yawning_script>>

\* the time.sleep(2) of a Level-1 thread ends
ToneWake(ref, thread) ==
    /\ thread.kind = "l1" /\ thread.pc = "sleep"
    /\ Becomes(ref, thread, [thread EXCEPT !.pc = "check"])
    /\ UNCHANGED <<engine, stop_alert, now, locals, observers>>
    /\ UNCHANGED <<perclos_script, yawning_script>>

\* a thread after dt seconds: a sleep that is over by then has ended
Woken(thread, dt) ==
    IF thread.pc = "sleep" /\ (thread.kind = "l2" \/ dt >= LEVEL1_BEEP_PERIOD)
    THEN [thread EXCEPT !.pc = "check"] ELSE thread

\* time passes while every thread sleeps
TonesSleep(dt) ==
    /\ \A r \in Running : r[2].pc = "sleep"
    /\ alert_thread' = Woken(alert_thread, dt)
    /\ orphans' = {Woken(o, dt) : o \in orphans}
    /\ UNCHANGED stop_alert

\* a thread left to run until it sleeps or ends
Settled(thread) ==
    IF IsAlive(thread) /\ LoopCondition(thread)
    THEN [thread EXCEPT !.pc = "sleep"] ELSE NoThread

\* between two frames every thread runs until it sleeps or ends
TonesRun ==
    /\ alert_thread' = Settled(alert_thread)
    /\ orphans' = {Settled(o) : o \in orphans} \ {NoThread}
    /\ UNCHANGED stop_alert

\* a session without yawns, frames 1, 3 or 10 s apart
Tick == \E dt \in Steps : TickBy(dt, MaxTime) /\ TonesRun
Process == \E f \in FaceFrames : FaceFrame(f)
Next == Tick \/ Process \/ NoFace \/ FaceWithoutEar \/ ManualReset
Spec == Init /\ [][Next]_vars

\* a session with yawns, frames 3 or 10 s apart
TickYawn == \E dt \in YawnSteps : TickBy(dt, MaxYawnTime) /\ TonesRun
ProcessYawn == \E f \in YawnFrames(now) : FaceFrame(f)
NextYawn == TickYawn \/ ProcessYawn \/ NoFace \/ ManualReset
SpecYawn == Init /\ [][NextYawn]_vars

\* a session with yawns in which the eyes may be measured closed, frames 3 or
\* 10 s apart
TickGate == \E dt \in YawnSteps : TickBy(dt, MaxGateTime) /\ TonesRun
ProcessGate == \E f \in GateFrames(now) : FaceFrame(f)
NextGate == TickGate \/ ProcessGate \/ NoFace
SpecGate == Init /\ [][NextGate]_vars

\* a session in which the tone threads interleave with the frames
TickTone == \E dt \in ToneSteps : TickBy(dt, MaxToneTime) /\ TonesSleep(dt)
ProcessTone == \E f \in ToneFrames : FaceFrame(f)
CheckTone == \E r \in Running : ToneCheck(r[1], r[2])
EmitTone == \E r \in Running : ToneEmit(r[1], r[2])
WakeTone == \E r \in Running : ToneWake(r[1], r[2])
NextTone == TickTone \/ ProcessTone \/ CheckTone \/ EmitTone \/ WakeTone
SpecTone == Init /\ [][NextTone]_vars

\* a session in which the audio backend may fail at any emission
FailTone == \E r \in Running : ToneFail(r[1], r[2])
HandleTone == \E r \in Running : ToneHandle(r[1], r[2])
NextAudio == NextTone \/ FailTone \/ HandleTone
SpecAudio == Init /\ [][NextAudio]_vars

\* a session that outlasts the recurrence window, frames 100 or 150 s apart
TickLong == \E dt \in LongSteps : TickBy(dt, MaxLongTime) /\ TonesRun
ProcessLong == \E f \in ToneFrames : FaceFrame(f)
NextLong == TickLong \/ ProcessLong \/ ManualReset
SpecLong == Init /\ [][NextLong]_vars

\* the frames of a session that outlasts every sliding window: no yawn, the
\* yawn that just ended, or the three yawns of the last seconds
WindowFrames(t) ==
    [face : {TRUE}, state : {"ALERT", "DROWSY"},
     yawns : {<<>>, <<t>>} \cup (IF t >= 2 THEN {<<t - 2, t - 1, t>>} ELSE {}),
     perclos : {0}, blink_rate : {0}, microsleep_count : {0}, ear : {30}]

\* a session runs one program: main.py (it has taken a frame or a tick) or
\* Development/PERCLOS.py (it has seen a face)
MainRunning == call.op # "init"
ScriptRunning == current_time # None

\* the script's "current_time = time.time()" of the next iteration
TickScript ==
    /\ ScriptRunning
    /\ \E dt \in WindowSteps :
          /\ now + dt <= MaxWindowTime
          /\ now' = now + dt
    /\ UNCHANGED <<engine, tones, locals, observers, perclos_script,
                   yawning_script>>

\* sessions that outlast every sliding window, frames 40 or 310 s apart: one
\* of main.py, or one of Development/PERCLOS.py
TickWindow ==
    /\ ~ScriptRunning
    /\ \E dt \in WindowSteps : TickBy(dt, MaxWindowTime) /\ TonesRun
ProcessWindow ==
    /\ ~ScriptRunning
    /\ \E f \in WindowFrames(now) : FaceFrame(f)
ScriptFrame ==
    /\ ~MainRunning
    /\ \E face \in BOOLEAN, ear \in ScriptEars : PerclosFrame(face, ear)
NextWindow == TickWindow \/ ProcessWindow \/ TickScript \/ ScriptFrame
SpecWindow == Init /\ [][NextWindow]_vars

(***************************************************************************)
(* Properties.                                                             *)
(***************************************************************************)
Level == get_alert_level(Self)

\* the activations on record inside the recurrence window that ends now
ActivationsInWindow ==
    CountFrom(level1_trigger_history, now - LEVEL1_FREQUENCY_WINDOW_SECONDS)

\* C1 (as amended): a process call with microsleep_count > 0 made while the
\* alert level is 0 leaves the engine at alert level 1 at the end of that call,
\* fired at the call's timestamp with reason "microsleep event", whatever the
\* state argument and whatever dwell time had accumulated.
C1_MicrosleepBypass ==
    (call.op = "process" /\ call.microsleep_count > 0
        /\ ~call.pre_l1 /\ ~call.pre_l2)
    => /\ Level = 1
       /\ last_alert_reason = REASON_MICROSLEEP
       /\ level1_triggered_at = now

\* a microsleep call from level 0 with no dwell timer running has fired Level 1
C1_Witness ==
    /\ call.op = "process" /\ call.microsleep_count > 0
    /\ ~call.pre_l1 /\ ~call.pre_l2
    /\ level1_start = None
    /\ Level = 1

\* C1 as stated: the same for every microsleep call made while Level 1 is
\* not active (Level 2 may be active without Level 1).
C1_AsStated ==
    (call.op = "process" /\ call.microsleep_count > 0 /\ ~call.pre_l1)
    => /\ Level = 1
       /\ last_alert_reason = REASON_MICROSLEEP

\* C2: a process call without microsleep activates Level 1 only if some trigger
\* was active on every process call since a call made at least
\* LEVEL1_DURATION_SECONDS earlier, and the dwell timer dates from that run.
C2_DwellBeforeLevel1 ==
    (call.op = "process" /\ ~call.pre_l1 /\ level1_active
        /\ call.microsleep_count = 0)
    => /\ call.trigger
       /\ call.run_start # None
       /\ now - call.run_start >= LEVEL1_DURATION_SECONDS
       /\ level1_start = call.run_start

\* Level 1 fired after a dwell on a call made after the start of the session
C2_Witness ==
    /\ call.op = "process" /\ ~call.pre_l1 /\ level1_active
    /\ call.microsleep_count = 0
    /\ call.run_start # None /\ call.run_start > 0
    /\ now - call.run_start = LEVEL1_DURATION_SECONDS

\* C3: during a run of drowsy-state calls that began at T0 on an idle engine
\* (Scenario C: no dwell running, no microsleep, fewer than two activations on
\* record), Level 1 is active after a call exactly when the call's time is at
\* least T0 + LEVEL1_DURATION_SECONDS, and Level 2 exactly when it is at least
\* level1_triggered_at + LEVEL2_DURATION_SECONDS: each fires on the first such
\* call and on no earlier one.
C3_StandardEscalation ==
    (call.op = "process" /\ drowsy_since # None)
    => /\ level1_active <=> (now - drowsy_since >= LEVEL1_DURATION_SECONDS)
       /\ level1_active => level1_triggered_at >= drowsy_since + LEVEL1_DURATION_SECONDS
       /\ level2_active <=>
              (/\ level1_active
               /\ now - level1_triggered_at >= LEVEL2_DURATION_SECONDS)
       /\ level2_active => last_alert_reason = REASON_PERSISTENT

\* drowsy from t = 0: Level 1 fired at t = 3 and Level 2 on the call at t = 13
C3_Witness ==
    /\ call.op = "process" /\ drowsy_since = 0
    /\ level1_triggered_at = 3 /\ now = 13
    /\ ~call.pre_l2 /\ level2_active

\* C4: in a session whose frames all have state ALERT and pass only the yawns
\* of Scenario A (t = 0, 10, 20), each first on the frame at its own timestamp,
\* the alert level is 0 after every process call before t = 23, and after the
\* call at t = 23 with all three yawns ingested it is 1, fired on that call
\* with the reason "yawn frequency".
C4_YawnFrequencyTrigger ==
    (call.op = "process" /\ scenario_yawns # Broken)
    => /\ now < 23 => Level = 0
       /\ (now = 23 /\ scenario_yawns = ScenarioAYawns)
          => /\ Level = 1
             /\ ~call.pre_l1
             /\ last_alert_reason = "yawn frequency"

\* Scenario A has run to t = 23 and Level 1 has fired there
C4_Witness ==
    /\ call.op = "process" /\ scenario_yawns = ScenarioAYawns
    /\ now = 23 /\ level1_triggered_at = 23 /\ Level = 1

\* C5 as stated: a process call does not end Level 1 before
\* level1_triggered_at + 5 s, and a call with state ALERT and no trigger made
\* at or after that time does not leave Level 1 active.
C5_ResetHysteresis ==
    call.op = "process"
    => /\ (call.pre_l1 /\ Level = 0)
          => now - call.pre_triggered_at >= RESET_BUFFER_SECONDS
       /\ (quiet_since # None /\ level1_start # None)
          => ~(/\ level1_active
               /\ now - level1_triggered_at >= RESET_BUFFER_SECONDS)

\* C6 as stated, for a run of at least 5 s: once the calls made at Level 1 or
\* 2 have had state ALERT, no microsleep, no yawn and no trigger for 5 s, the
\* alert level is 0 and the flags and the yawn bookkeeping are cleared.
C6_RecoveryLiveness ==
    (call.op = "process" /\ quiet_since # None
        /\ now - quiet_since >= RESET_BUFFER_SECONDS)
    => /\ Level = 0
       /\ ~level1_active /\ ~level2_active
       /\ yawn_timestamps = <<>> /\ yawns_since_level1 = 0

\* C7 as stated: a process call made while Level 1 is active and with a yawn
\* ingested since it fired does not reset the engine to level 0.
C7_ResetBlockedByYawns ==
    (call.op = "process" /\ call.pre_l1 /\ call.yawned) => Level # 0

\* C8 as stated: after any process call with at least
\* LEVEL1_FREQUENCY_THRESHOLD activations inside the window, the level is 2.
C8_RecurrenceUnconditional ==
    (call.op = "process" /\ ActivationsInWindow >= LEVEL1_FREQUENCY_THRESHOLD)
    => Level = 2

\* C9 as stated: the process call on which Level 1 fires for the third time
\* inside the window ends at level 2 with the recurrence reason.
C9_ScenarioE ==
    (call.op = "process" /\ ~call.pre_l1 /\ level1_active
        /\ ActivationsInWindow = LEVEL1_FREQUENCY_THRESHOLD)
    => /\ Level = 2
       /\ last_alert_reason = REASON_FREQUENT

C11_ManualResetFull ==
    call.op = "manual_reset"
    => /\ Level = 0
       /\ ~level1_active /\ ~level2_active
       /\ level1_start = None /\ level1_triggered_at = None
       /\ yawn_timestamps = <<>> /\ yawns_since_level1 = 0
       /\ ~level2_triggered

\* C12: a step taken at alert level 2 leaves the level at 2, or takes it to 0
\* by reset() (the dwell timer, set at level 2, is cleared); never to 1.
C12_Level2Terminal ==
    [][Level = 2
       => \/ Level' = 2
          \/ (Level' = 0 /\ level1_start # None /\ level1_start' = None)]_vars

\* a process call made at level 2 has left the level at 2
C12_Witness ==
    /\ call.op = "process" /\ call.pre_l2
    /\ Level = 2

\* a tone thread of the kind is alive and no stop is requested: its loop
\* condition lets it emit for as long as its level stays active
ToneRuns(kind) ==
    /\ ~stop_alert
    /\ \E r \in Running : r[2].kind = kind

\* C13 as stated: whenever Level 2 is active, a Level-2 tone thread is alive
\* and able to emit.
C13_Level2ToneHandover == level2_active => ToneRuns("l2")

\* C14 as stated: whenever the alert level is 1, a Level-1 tone thread is alive
\* and able to emit.
C14_Level1ToneAlive == (Level = 1) => ToneRuns("l1")

\* C15 as stated: no Level-1 tone has been emitted with level1_active false or
\* a stop requested, and no Level-2 tone with level2_active false.
C15_NoToneAfterDeactivation == late_beeps = {}

\* how many times timestamp ts is on record in the history h
Occurrences(h, ts) == Cardinality({i \in DOMAIN h : h[i] = ts})

\* C16: no step removes or changes an entry of level1_trigger_history that is
\* not older than LEVEL1_FREQUENCY_WINDOW_SECONDS at that step, whether the
\* step is a reset() made by process, a manual_reset() or anything else, and
\* manual_reset() leaves the whole history as it was.
C16_HistorySurvivesResets ==
    [][/\ \A i \in DOMAIN level1_trigger_history :
             level1_trigger_history[i] >= now' - LEVEL1_FREQUENCY_WINDOW_SECONDS
                 => Occurrences(level1_trigger_history', level1_trigger_history[i])
                        >= Occurrences(level1_trigger_history, level1_trigger_history[i])
       /\ call'.op = "manual_reset"
             => level1_trigger_history' = level1_trigger_history]_vars

\* a process call whose reset() ended Level 1 and kept the activation on record
C16_Witness ==
    /\ call.op = "process" /\ call.pre_l1 /\ Level = 0
    /\ level1_start = None
    /\ Len(level1_trigger_history) >= 1

\* the level-transition edges of the process call just made: an activation of
\* Level 1 and an entry into Level 2
Level1Edge == call.op = "process" /\ ~call.pre_l1 /\ level1_active
Level2Edge == call.op = "process" /\ ~call.pre_l2 /\ level2_active
EdgesOfCall == (IF Level1Edge THEN 1 ELSE 0) + (IF Level2Edge THEN 1 ELSE 0)
LogAlertCalls == IF call.log_alert = "none" THEN 0 ELSE 1

\* C17: on every frame the main loop calls log_alert once for each
\* level-transition edge of that frame's process call: as many log_alert calls
\* as edges, a "LEVEL2" record when Level 2 was entered and a "LEVEL1" record
\* when Level 1 alone was activated.
C17_LogAlertPerEdge ==
    call.op = "process"
        => /\ LogAlertCalls = EdgesOfCall
           /\ Level2Edge => call.log_alert = "LEVEL2"
           /\ (Level1Edge /\ ~Level2Edge) => call.log_alert = "LEVEL1"

\* C18: send_emergency, which the main loop calls together with
\* log_alert("LEVEL2"), is called on a frame exactly when that frame's process
\* call took level2_active from false to true, and only when the alert level
\* after the call is 2.
C18_EmergencyPerLevel2Entry ==
    call.op = "process"
        => /\ Level2Edge <=> call.log_alert = "LEVEL2"
           /\ call.log_alert = "LEVEL2" => Level = 2

\* C19: a process call for a frame without a face (state NO_FACE, no yawns,
\* metrics absent, microsleep_count 0) has no Level-1 trigger active and does
\* not raise the alert level, whatever earlier frames left in the engine.
C19_MissingSignalNeutral ==
    (call.op = "process" /\ ~call.face)
        => /\ ~call.trigger
           /\ level1_active => call.pre_l1
           /\ level2_active => call.pre_l2

\* C20: the frame body of the main loop never ends with an exception, whatever
\* signals are absent on the frame and however early in the session it comes.
C20_FramePathTotal == ~crashed

\* the threads that are in the except clause of their loop
Excepting == {r[2] : r \in {q \in Running : q[2].pc = "except"}}

\* C21: a failed emission is caught inside the tone thread: a thread in its
\* except clause is still alive after every step and its next position is the
\* loop's sleep, and the steps in which an emission fails or the failure is
\* handled leave every field of the engine, stop_alert and the frame path as
\* they were.
C21_ToneFailureContained ==
    [][/\ \A thread \in Excepting :
             \E r \in Running' :
                 r[2].kind = thread.kind /\ r[2].pc \in {"except", "sleep"}
       /\ Excepting' # Excepting
             => /\ UNCHANGED <<engine, stop_alert, locals, call>>
                /\ ~crashed']_vars

\* a thread whose emission failed while its level is active
C21_Witness ==
    \E thread \in Excepting : LoopCondition(thread) /\ call.op = "process"

\* C22: in every reachable state, reset() called twice in a row leaves the
\* engine (its fields, stop_alert and the thread reference) exactly as one call
\* does.
C22_ResetIdempotent == reset(reset(Self)) = reset(Self)

\* a state at Level 2, with yawns on record, in which reset() changes the engine
C22_Witness ==
    /\ level2_active /\ level1_start # None /\ yawn_timestamps # <<>>
    /\ reset(Self) # Self

\* C23: yawn_timestamps never holds the same timestamp twice, whatever lists
\* the process calls were given.
C23_NoDuplicateYawns ==
    \A i, j \in DOMAIN yawn_timestamps :
        yawn_timestamps[i] = yawn_timestamps[j] => i = j

\* a process call that was given the same timestamp twice and holds it
C23_Witness ==
    /\ call.op = "process" /\ call.face
    /\ Len(recent_yawn_timestamps) = 2
    /\ recent_yawn_timestamps[1] = recent_yawn_timestamps[2]
    /\ Contains(yawn_timestamps, recent_yawn_timestamps[1])

\* the entries of list s that are not older than window seconds at time t
InWindow(s, t, window) == {i \in DOMAIN s : s[i] >= t - window}

RECURSIVE FreshClosedTime(_, _)
\* the closed time of the closures of history whose end is not older than
\* PERCLOS_WINDOW at time t
FreshClosedTime(history, t) ==
    IF history = <<>> THEN 0
    ELSE (IF Head(history)[2] >= t - PERCLOS_WINDOW
          THEN Head(history)[2] - Head(history)[1] ELSE 0)
         + FreshClosedTime(Tail(history), t)

\* C24: no stale entry is counted by a sliding window: the yawn trigger and
\* the recurrence check evaluated now depend only on the timestamps on record
\* that are not older than their window, and the closed time computed by
\* Development/PERCLOS.py counts only closures whose end is not older than
\* PERCLOS_WINDOW at that frame.
C24_NoStaleEntryCounted ==
    /\ check_yawn_trigger(Self, now)
          <=> Cardinality(InWindow(yawn_timestamps, now,
                                   YAWN_ALERT_WINDOW_SECONDS))
                  > YAWN_ALERT_THRESHOLD
    /\ check_frequent_level1_trigger(Self, now)
          <=> Cardinality(InWindow(level1_trigger_history, now,
                                   LEVEL1_FREQUENCY_WINDOW_SECONDS))
                  >= LEVEL1_FREQUENCY_THRESHOLD
    /\ current_time # None
          => /\ \A i \in DOMAIN eye_history :
                    eye_history[i][2] >= current_time - PERCLOS_WINDOW
             /\ closed_time
                    = FreshClosedTime(eye_history, current_time)
                      + (IF eye_closed THEN current_time - eye_closed_start
                         ELSE 0)

\* a process call that found a yawn older than its window on record and ends
\* with an activation older than the recurrence window still on record
C24_Witness ==
    /\ call.op = "process" /\ call.stale_yawns > 0
    /\ \E i \in DOMAIN level1_trigger_history :
           level1_trigger_history[i] < now - LEVEL1_FREQUENCY_WINDOW_SECONDS

\* Level 1 was active at some point of the session: trigger_level1 puts every
\* activation on record, and no session this short outlasts the window after
\* which an activation is dropped
Level1WasActive == Len(level1_trigger_history) > 0

\* C25: whenever level2_active is true, Level 1 was active at some point of the
\* session, or Level 2 was entered by the recurrence check with at least
\* LEVEL1_FREQUENCY_THRESHOLD activations in the trailing window.
C25_Level2NeedsLevel1 ==
    level2_active
        => \/ Level1WasActive
           \/ /\ last_alert_reason = REASON_FREQUENT
              /\ ActivationsInWindow >= LEVEL1_FREQUENCY_THRESHOLD

\* Level 2 entered by the recurrence check in a call that began at level 0
C25_Witness ==
    /\ call.op = "process" /\ ~call.pre_l1 /\ ~call.pre_l2
    /\ level2_active /\ last_alert_reason = REASON_FREQUENT

\* the process call just made entered Level 2 by the standard escalation
StandardEscalation ==
    Level2Edge /\ last_alert_reason = REASON_PERSISTENT

\* C26: Level 2 is entered by the standard path only on a call on which a
\* trigger kind that caused the current Level-1 activation is still active.
C26_OriginalTriggerRequired ==
    StandardEscalation => call.escalation.due /\ call.escalation.original

\* C27: a process call that starts with Level 1 active for
\* LEVEL2_DURATION_SECONDS or more and Level 2 not active, and on which the
\* blink-rate trigger or the PERCLOS trigger is active, ends at alert level 2.
C27_MetricTriggersEscalate ==
    (/\ call.op = "process" /\ call.escalation.due
     /\ call.escalation.blink_rate_trigger \/ call.escalation.perclos_trigger)
        => Level = 2

\* the process call just made was one on which the standard escalation was due
\* with the yawn trigger active and the state trigger not
YawnOnlyDue ==
    /\ call.op = "process" /\ call.escalation.due
    /\ ~call.escalation.has_symptoms /\ call.escalation.yawn_trigger

C29_EscalationNeverEarly ==
    StandardEscalation
        => /\ call.pre_l1 /\ call.escalation.due
           /\ \/ call.escalation.has_symptoms
              \/ call.escalation.yawn_trigger
              \/ call.escalation.blink_rate_trigger
              \/ call.escalation.perclos_trigger

\* an escalation at the first moment it may happen
C29_Witness ==
    /\ StandardEscalation
    /\ level1_triggered_at = now - LEVEL2_DURATION_SECONDS

\* C30: a step that takes level1_active from false to true sets
\* level1_triggered_at to the call's timestamp and yawns_since_level1 to 0 and
\* appends that timestamp, once, to level1_trigger_history (which the same call
\* may then prune of entries older than the recurrence window); a step that
\* leaves Level 1 active keeps level1_triggered_at and appends nothing, and
\* trigger_level1 called while Level 1 is active changes nothing.
C30_Level1Bookkeeping ==
    [][/\ (~level1_active /\ level1_active')
            => /\ level1_triggered_at' = now'
               /\ yawns_since_level1' = 0
               /\ level1_trigger_history'
                     \in {Append(level1_trigger_history, now'),
                          KeepFrom(Append(level1_trigger_history, now'),
                                   now' - LEVEL1_FREQUENCY_WINDOW_SECONDS)}
       /\ (level1_active /\ level1_active')
            => /\ level1_triggered_at' = level1_triggered_at
               /\ level1_trigger_history'
                     \in {level1_trigger_history,
                          KeepFrom(level1_trigger_history,
                                   now' - LEVEL1_FREQUENCY_WINDOW_SECONDS)}
       /\ level1_active
            => trigger_level1(Self, now, REASON_MICROSLEEP) = Self]_vars

\* a call that activated Level 1 and ingested a yawn of its own timestamp
C30_Witness ==
    /\ call.op = "process" /\ ~call.pre_l1 /\ level1_active
    /\ level1_triggered_at = now /\ Contains(yawn_timestamps, now)
    /\ yawns_since_level1 = 0 /\ Len(level1_trigger_history) >= 2

\* the names of the triggers in the order of the report, and those of them
\* that were active on the call that just activated Level 1
TriggerNames ==
    <<"yawn frequency", "excessive blink rate", "high PERCLOS",
      "drowsiness symptoms">>
ActiveNames ==
    LET a == call.activation
        active(name) ==
            \/ name = "yawn frequency" /\ a.yawn_trigger
            \/ name = "excessive blink rate" /\ a.blink_rate_trigger
            \/ name = "high PERCLOS" /\ a.perclos_trigger
            \/ name = "drowsiness symptoms" /\ a.has_symptoms
    IN  SelectSeq(TriggerNames, active)

\* the process call just made activated Level 1 on the dwell path and did not
\* go on to Level 2
DwellActivation ==
    /\ call.op = "process" /\ call.activation.fired
    /\ ~call.activation.microsleep /\ ~level2_active

\* C31: when Level 1 fires on the dwell path, the reason on record names every
\* trigger active on that call and no other, in the order yawn frequency,
\* excessive blink rate, high PERCLOS, drowsiness symptoms, joined by " + ".
C31_ReasonComposition ==
    DwellActivation
        => /\ Len(ActiveNames) > 0
           /\ last_alert_reason = Join(ActiveNames)

\* Level 1 fired with three triggers active at once
C31_Witness ==
    DwellActivation /\ Len(ActiveNames) = 3


(***************************************************************************)
(* Sessions in which only PERCLOS varies, around the Level 1 band.         *)
(***************************************************************************)
TickBand == \E dt \in YawnSteps : TickBy(dt, MaxBandTime) /\ TonesRun
ProcessBand == \E f \in BandFrames : FaceFrame(f)
NextBand == TickBand \/ ProcessBand \/ NoFace
SpecBand == Init /\ [][NextBand]_vars

\* the perclos of the last call lies in the band, both ends included
InBand ==
    /\ call.perclos # None
    /\ PERCLOS_LEVEL1_MIN <= call.perclos
    /\ call.perclos <= PERCLOS_LEVEL1_MAX

\* C32: in a session whose frames have state ALERT (or no face) and no other
\* trigger, should_trigger_level1 is true exactly when perclos lies in
\* [PERCLOS_LEVEL1_MIN, PERCLOS_LEVEL1_MAX], both ends included; after a call
\* at level 0 with perclos outside the band or absent, no dwell is running
C32_PerclosBand ==
    call.op = "process" =>
        /\ call.trigger <=> InBand
        /\ (~InBand /\ ~call.pre_l1 /\ ~call.pre_l2) =>
               /\ level1_start = None
               /\ Level = 0
C32_Witness ==
    /\ call.op = "process"
    /\ call.perclos = PERCLOS_LEVEL1_MAX + 1
    /\ ~call.trigger
    /\ ~call.pre_l1 /\ ~call.pre_l2
    /\ level1_start = None
    /\ now >= LEVEL1_DURATION_SECONDS


\* C33: on every frame of Development/PERCLOS.py with a face, the closed time
\* summed over the window is at most the window, so PERCLOS is at most 100 %
C33_PerclosBounded ==
    current_time # None => closed_time <= PERCLOS_WINDOW


(***************************************************************************)
(* Sessions whose frames may follow each other within the same second,     *)
(* with the tone threads interleaved: a time.sleep(2) outlasts such frames *)
(* and is over after 10 s.                                                 *)
(***************************************************************************)
TickBurst == \E dt \in BurstSteps : TickBy(dt, MaxBurstTime) /\ TonesSleep(dt)
NextBurst == TickBurst \/ ProcessTone \/ CheckTone \/ EmitTone \/ WakeTone
SpecBurst == Init /\ [][NextBurst]_vars

\* the threads alive whose loop goes on: the flags, as they stand, let the
\* thread pass its next test of the loop condition and beep
Emitters == {r \in Running : LoopCondition(r[2])}

\* C34: at any time at most one tone thread is alive and able to emit
C34_NoOverlappingTones == Cardinality(Emitters) <= 1


\* a step of the frame-processing path: main() has made a call of process()
\* or of manual_reset()
FrameStep == call' # call /\ call'.op \in {"process", "manual_reset"}

\* C35: every step that changes an AlertEngine field the frame path assigns
\* (the alert state or stop_alert) is a step of the frame-processing path; the
\* steps of the tone threads only read them
C35_SingleWriter ==
    [][(engine' # engine \/ stop_alert' # stop_alert) => FrameStep]_vars
C35_Witness ==
    /\ \E r \in Running : r[2].pc = "except"
    /\ stop_alert /\ ~level1_active
    /\ late_beeps # {}


(***************************************************************************)
(* Development/yawning_test.py: the yawn candidate.                        *)
(***************************************************************************)
\* a variant of the detection logic in which a sample at or under the
\* threshold clears the flag but keeps the candidate's start time
yawning_logic_keeps_start(start, detected, ratio, t) ==
    IF ratio > LAR_THRESHOLD
    THEN IF start = None
         THEN [mouth_open_start_time |-> t, yawning_detected |-> detected]
         ELSE [mouth_open_start_time |-> start,
               yawning_detected |-> detected \/ t - start > YAWN_TIME_THRESHOLD]
    ELSE [mouth_open_start_time |-> start, yawning_detected |-> FALSE]

\* "if lar > LAR_THRESHOLD: ... else: ..." on a frame with a face at time t
yawning_logic(start, detected, ratio, t) ==
    IF ratio > LAR_THRESHOLD
    THEN IF start = None
         THEN [mouth_open_start_time |-> t, yawning_detected |-> detected]
         ELSE [mouth_open_start_time |-> start,
               yawning_detected |-> detected \/ t - start > YAWN_TIME_THRESHOLD]
    ELSE [mouth_open_start_time |-> None, yawning_detected |-> FALSE]

\* one iteration of the script's main loop: with no face nothing is updated
LarFrame(face, ratio) ==
    /\ IF ~face
       THEN /\ lar' = None
            /\ UNCHANGED <<mouth_open_start_time, yawning_detected, open_since>>
       ELSE LET after == yawning_logic(mouth_open_start_time, yawning_detected,
                                       ratio, lar_time)
            IN  /\ mouth_open_start_time' = after.mouth_open_start_time
                /\ yawning_detected' = after.yawning_detected
                /\ lar' = ratio
                /\ open_since' = IF ratio > LAR_THRESHOLD
                                 THEN (IF open_since = None THEN lar_time
                                       ELSE open_since)
                                 ELSE None
    /\ UNCHANGED <<engine, tones, now, locals, observers, perclos_script,
                   lar_time>>

\* the script's "current_time = time.time()" of the next iteration
TickLar ==
    /\ \E dt \in LarSteps :
          /\ lar_time + dt <= MaxLarTime
          /\ lar_time' = lar_time + dt
    /\ UNCHANGED <<engine, tones, now, locals, observers, perclos_script,
                   mouth_open_start_time, yawning_detected, lar, open_since>>

ProcessLar == \E face \in BOOLEAN, ratio \in LarValues : LarFrame(face, ratio)
NextLar == TickLar \/ ProcessLar
SpecLar == Init /\ [][NextLar]_vars

\* C36: the flag is true only when every sample since the candidate started
\* was above LAR_THRESHOLD and the candidate started more than
\* YAWN_TIME_THRESHOLD ago; a sample at or under the threshold leaves no
\* candidate and no flag; a flag that is set stays set on a sample above the
\* threshold
C36_NoPartialCredit ==
    [][
        /\ yawning_detected' =>
             /\ open_since' # None
             /\ mouth_open_start_time' = open_since'
             /\ lar_time' - open_since' > YAWN_TIME_THRESHOLD
        /\ (lar' # None /\ lar' <= LAR_THRESHOLD) =>
             /\ mouth_open_start_time' = None
             /\ ~yawning_detected'
        /\ (yawning_detected /\ lar' # None /\ lar' > LAR_THRESHOLD) =>
             yawning_detected'
    ]_vars
C36_Witness ==
    /\ yawning_detected
    /\ lar = LAR_THRESHOLD + 10
    /\ lar_time - open_since = YAWN_TIME_THRESHOLD + 1
    /\ open_since > YAWN_TIME_THRESHOLD


\* the alert level before the last call of process()
LevelBeforeCall == IF call.pre_l2 THEN 2 ELSE IF call.pre_l1 THEN 1 ELSE 0

\* the last call of process() had no trigger active: no drowsy state, no
\* yawn, blink-rate or PERCLOS trigger, and microsleep_count 0
QuietCall ==
    /\ call.op = "process"
    /\ ~call.trigger
    /\ call.microsleep_count = 0

\* C37: after a call of process() with no trigger active the alert level is
\* not higher than before the call, whatever the recurrence history holds
C37_NoSpontaneousAlert == QuietCall => Level <= LevelBeforeCall
C37_Witness ==
    /\ QuietCall
    /\ LevelBeforeCall = 0 /\ Level = 0
    /\ check_frequent_level1_trigger(Self, now)


\* C38: level1_active is true exactly when level1_triggered_at is set, and
\* yawns_since_level1 is 0 whenever Level 1 is not active
C38_Level1Bookkeeping ==
    /\ level1_active <=> level1_triggered_at # None
    /\ ~level1_active => yawns_since_level1 = 0
C38_Witness ==
    /\ call.op = "process"
    /\ call.pre_l1 /\ call.yawned
    /\ ~level1_active
    /\ level1_triggered_at = None
    /\ yawns_since_level1 = 0


\* C39: whenever Level 2 is active the dwell marker level1_start is set, so
\* reset() and manual_reset() each return the alert level to 0
C39_Level2Resettable ==
    level2_active =>
        /\ level1_start # None
        /\ get_alert_level(reset(Self)) = 0
        /\ get_alert_level(manual_reset(Self)) = 0
C39_Witness ==
    /\ level2_active /\ ~level1_active
    /\ call.op = "process" /\ ~call.pre_l1 /\ ~call.pre_l2
    /\ level1_start = now

=============================================================================
